---- MODULE Spec2Model ----
(***************************************************************************)
(* A model of stepic_utils/quiz.py: the wrapping and validation of the     *)
(* three functions a quiz module exports (generate, solve, check), the two *)
(* quiz classes DatasetQuiz and CodeQuiz, their self_check, and the        *)
(* unittest case QuizModuleTest that replays the module's `tests`.         *)
(*                                                                         *)
(* Python values are records [t, s, n, e]: t is the type, s the text of a  *)
(* str/bytes, n a number in ten-thousandths, e the elements of a tuple,    *)
(* list or dict (a dict is a sequence of (key, value) 2-tuples).           *)
(***************************************************************************)
EXTENDS Integers, Sequences, FiniteSets, TLC

\* ------------------------------------------------------------------ bounds
\* longest list a module's generate() returns, longest `tests` list
MaxCases == 2

\* the number 1.0 in the unit of the n field (ten-thousandths)
One == 10000

\* ------------------------------------------------------------ Python values
Val(t, s, n, e) == [t |-> t, s |-> s, n |-> n, e |-> e]
Str(s) == Val("str", s, 0, <<>>)
Bytes(s) == Val("bytes", s, 0, <<>>)
IntVal(n) == Val("int", "", n, <<>>)
FloatVal(n) == Val("float", "", n, <<>>)
BoolVal(n) == Val("bool", "", n, <<>>)
NaN == Val("float", "nan", 0, <<>>)
None == Val("none", "", 0, <<>>)
\* a value the serializer has no encoding for (a set, a function, ...)
Obj == Val("object", "", 0, <<>>)
Tuple(e) == Val("tuple", "", 0, e)
List(e) == Val("list", "", 0, e)
Dict(e) == Val("dict", "", 0, e)
\* the outcome of a user function that raised instead of returning
Raised == Val("exception", "", 0, <<>>)

FileDict(v) == Dict(<<Tuple(<<Str("file"), v>>)>>)
EmptyDict == Dict(<<>>)

\* isinstance(v, numbers.Real): int, float and bool are registered as Real
IsReal(v) == v.t \in {"int", "float", "bool"}

\* Python's `v == 1` for a value of any type
EqualsOne(v) == IsReal(v) /\ v.s # "nan" /\ v.n = One

\* ------------------------------------------------- results of harness code
\* st: "ok" (returned v), "exit" (sys.exit(-1) after printing msg),
\*     "exception" (an exception of user code propagating unchanged),
\*     "assert" (unittest's failureException raised by an assert* method).
\* calls: the calls of raw user functions made so far, in order.
Ok(v, calls) == [st |-> "ok", v |-> v, msg |-> <<>>, calls |-> calls]

\* fail_with_message: print the message, raise SystemExit
fail_with_message(message, calls) ==
    [st |-> "exit", v |-> None, msg |-> message, calls |-> calls]

\* ---------------------------------------------------------------- cleaners
\* a clean_dataset that wraps every accepted dataset, a dict too
clean_dataset_rewrap(dataset) ==
    IF dataset.t \notin {"dict", "str", "bytes"}
    THEN fail_with_message(<<"dataset should be one of (dict, str, bytes)">>, <<>>)
    ELSE Ok(FileDict(dataset), <<>>)

\* BaseQuiz.clean_dataset
clean_dataset(dataset) ==
    IF dataset.t \notin {"dict", "str", "bytes"}
    THEN fail_with_message(<<"dataset should be one of (dict, str, bytes)">>, <<>>)
    ELSE IF dataset.t \in {"str", "bytes"}
         THEN Ok(FileDict(dataset), <<>>)
         ELSE Ok(dataset, <<>>)

\* CodeQuiz.clean_dataset
code_clean_dataset(dataset) ==
    IF dataset.t # "str"
    THEN fail_with_message(<<"dataset should be a str">>, <<>>)
    ELSE Ok(dataset, <<>>)

RECURSIVE Serializable(_)
Serializable(v) ==
    /\ v.t # "object"
    /\ \A i \in 1..Len(v.e) : Serializable(v.e[i])

\* utils.encode / utils.decode: the serialized form and its inverse
encode(v) == Val("encoded", "", 0, <<v>>)
decode(b) == b.e[1]

\* BaseQuiz.clean_clue
clean_clue(clue) ==
    IF Serializable(clue)
    THEN Ok(decode(encode(clue)), <<>>)
    ELSE fail_with_message(<<"clue is not serializable">>, <<>>)

\* BaseQuiz.clean_answer
clean_answer(answer) ==
    IF answer.t # "str"
    THEN fail_with_message(<<"answer should be a str">>, <<>>)
    ELSE Ok(answer, <<>>)

\* a clean_score without the upper bound
clean_score_open(score) ==
    IF ~(IsReal(score) /\ score.s # "nan" /\ 0 <= score.n)
    THEN fail_with_message(<<"score should be a number in range [0, 1]">>, <<>>)
    ELSE Ok(score, <<>>)

\* BaseQuiz.clean_score; a comparison with NaN is false
clean_score(score) ==
    IF ~(IsReal(score) /\ score.s # "nan" /\ 0 <= score.n /\ score.n <= One)
    THEN fail_with_message(<<"score should be a number in range [0, 1]">>, <<>>)
    ELSE Ok(score, <<>>)

\* BaseQuiz.clean_hint
clean_hint(hint) ==
    IF hint.t # "str"
    THEN fail_with_message(<<"hint should be a str">>, <<>>)
    ELSE Ok(hint, <<>>)

\* --------------------------------------------------------- the quiz module
\* A module is a record:
\*   generate, solve, check : [present, callable, nparams], the attribute and
\*                            its declared signature
\*   genRet   : what raw generate() returns (Raised when it raises)
\*   solveTab : raw solve as a table from the key of its argument to its
\*              outcome, "*" being every other argument
\*   checkTab : raw check as a table from the keys of (reply, clue)
\*   hasTests, tests : the optional attribute `tests`
KeyOf(v) == IF v.t = "str" THEN v.s ELSE v.t

\* the arguments the tables tell apart; "*" stands for every other one
SolveKeys == {"case1", "case2", "*"}
ReplyKeys == {"42", "bad-reply", "*"}
ClueKeys == {"42", "clue1", "clue2", "*"}

ArgKey(args, i, keys) ==
    IF i <= Len(args) /\ KeyOf(args[i]) \in keys THEN KeyOf(args[i]) ELSE "*"

SolveResult(m, args) == m.solveTab[ArgKey(args, 1, SolveKeys)]

CheckResult(m, args) ==
    m.checkTab[<<ArgKey(args, 1, ReplyKeys), ArgKey(args, 2, ClueKeys)>>]

UserCall(f, args, ret) == [f |-> f, args |-> args, ret |-> ret]

\* a call_user_code without the try/except
call_user_code_reraise(f, args, ret) ==
    IF ret.t = "exception"
    THEN [st |-> "exception", v |-> None, msg |-> <<>>, calls |-> <<UserCall(f, args, ret)>>]
    ELSE Ok(ret, <<UserCall(f, args, ret)>>)

\* call_user_code: the bare `except:` turns every exception of the user
\* function into fail_with_message
call_user_code(f, args, ret) ==
    IF ret.t = "exception"
    THEN fail_with_message(<<"Quiz failed with exception!">>, <<UserCall(f, args, ret)>>)
    ELSE Ok(ret, <<UserCall(f, args, ret)>>)

\* r, with the calls made before it put in front
After(calls, r) == [r EXCEPT !.calls = calls \o r.calls]

\* ------------------------------------------------------------ the wrappers
\* A quiz is [cls, synth]: its class and whether DatasetQuiz.__init__
\* synthesized generate/solve/check because the module exports no generate.
IsFileDict(v) ==
    /\ v.t = "dict"
    /\ Len(v.e) = 1
    /\ v.e[1].e[1] = Str("file")

\* a wrap_solve that passes a {"file": v} dataset on as it is
wrap_solve_keep(q, m, dataset) ==
    LET args == IF q.synth THEN <<>> ELSE <<dataset>>
        r == call_user_code("solve", args, SolveResult(m, args))
    IN  IF r.st # "ok" THEN r ELSE After(r.calls, clean_answer(r.v))

\* BaseQuiz.wrap_solve; the synthesized solve is `lambda dataset: solve_fun()`
wrap_solve(q, m, dataset) ==
    LET arg == IF IsFileDict(dataset) THEN dataset.e[1].e[2] ELSE dataset
        args == IF q.synth THEN <<>> ELSE <<arg>>
        r == call_user_code("solve", args, SolveResult(m, args))
    IN  IF r.st # "ok" THEN r ELSE After(r.calls, clean_answer(r.v))

\* the two cleaners at the end of a wrapper, in the code's order
CleanPair(first, second, calls) ==
    IF first.st # "ok" THEN After(calls, first)
    ELSE IF second.st # "ok" THEN After(calls, second)
    ELSE Ok(Tuple(<<first.v, second.v>>), calls)

\* BaseQuiz.wrap_check; the synthesized check is
\* `lambda reply, clue: check_fun(reply)`
wrap_check(q, m, reply, clue) ==
    LET args == IF q.synth THEN <<reply>> ELSE <<reply, clue>>
        r == call_user_code("check", args, CheckResult(m, args))
    IN  IF r.st # "ok" THEN r
        ELSE IF r.v.t = "tuple" /\ Len(r.v.e) # 2
        THEN fail_with_message(<<"check() returned a tuple but it's length is not 2.">>, r.calls)
        ELSE IF r.v.t = "tuple"
        THEN CleanPair(clean_score(r.v.e[1]), clean_hint(r.v.e[2]), r.calls)
        ELSE CleanPair(clean_score(r.v), clean_hint(Str("")), r.calls)

\* a raw generate that is always the module's
RawGenerate_of_module(q, m) == call_user_code("generate", <<>>, m.genRet)

\* the raw generate of a quiz: the module's, or `lambda: ({}, '')`
RawGenerate(q, m) ==
    IF q.synth
    THEN Ok(Tuple(<<EmptyDict, Str("")>>), <<>>)
    ELSE call_user_code("generate", <<>>, m.genRet)

\* a wrap_generate that returns the dataset without cleaning it
wrap_generate_raw_dataset(q, m) ==
    LET r == RawGenerate(q, m)
    IN  IF r.st # "ok" THEN r
        ELSE IF r.v.t = "tuple" /\ Len(r.v.e) # 2
        THEN fail_with_message(<<"generate() returned a tuple but it's length is not 2.">>, r.calls)
        ELSE IF r.v.t = "tuple"
        THEN CleanPair(Ok(r.v.e[1], <<>>), clean_clue(r.v.e[2]), r.calls)
        ELSE LET s == After(r.calls, wrap_solve(q, m, r.v))
             IN  IF s.st # "ok" THEN s
                 ELSE CleanPair(Ok(r.v, <<>>), clean_clue(s.v), s.calls)

\* BaseQuiz.wrap_generate
wrap_generate(q, m) ==
    LET r == RawGenerate(q, m)
    IN  IF r.st # "ok" THEN r
        ELSE IF r.v.t = "tuple" /\ Len(r.v.e) # 2
        THEN fail_with_message(<<"generate() returned a tuple but it's length is not 2.">>, r.calls)
        ELSE IF r.v.t = "tuple"
        THEN CleanPair(clean_dataset(r.v.e[1]), clean_clue(r.v.e[2]), r.calls)
        ELSE LET s == After(r.calls, wrap_solve(q, m, r.v))
             IN  IF s.st # "ok" THEN s
                 ELSE CleanPair(clean_dataset(r.v), clean_clue(s.v), s.calls)

\* is_dataset and is_dataset_and_clue of CodeQuiz.wrap_generate
is_dataset(x) == x.t = "str"
is_dataset_and_clue(x) == x.t = "tuple" /\ Len(x.e) = 2 /\ x.e[1].t = "str"

\* one element of the list comprehension over a list of datasets
CodeCaseFromDataset(q, m, dataset) ==
    LET d == code_clean_dataset(dataset)
        s == wrap_solve(q, m, dataset)
    IN  IF d.st # "ok" THEN d
        ELSE IF s.st # "ok" THEN s
        ELSE CleanPair(d, clean_clue(s.v), s.calls)

\* one element of the list comprehension over a list of pairs
CodeCaseFromPair(q, m, pair) ==
    CleanPair(code_clean_dataset(pair.e[1]), clean_clue(pair.e[2]), <<>>)

\* the list comprehensions: elements in order, stopping at the first that
\* does not return
RECURSIVE CodeCases(_, _, _, _)
CodeCases(q, m, items, bare) ==
    IF items = <<>> THEN Ok(List(<<>>), <<>>)
    ELSE LET h == IF bare THEN CodeCaseFromDataset(q, m, Head(items))
                  ELSE CodeCaseFromPair(q, m, Head(items))
             t == CodeCases(q, m, Tail(items), bare)
         IN  IF h.st # "ok" THEN h
             ELSE IF t.st # "ok" THEN After(h.calls, t)
             ELSE Ok(List(<<h.v>> \o t.v.e), h.calls \o t.calls)

\* a CodeQuiz.wrap_generate that takes each element by its own shape
code_wrap_generate_mixed(q, m) ==
    LET r == call_user_code("generate", <<>>, m.genRet)
        AsPair(x) == IF is_dataset(x) THEN CodeCaseFromDataset(q, m, x)
                     ELSE CodeCaseFromPair(q, m, x)
        Each[i \in 0..MaxCases + 1] ==
            IF i = 0 THEN Ok(List(<<>>), r.calls)
            ELSE IF Each[i - 1].st # "ok" THEN Each[i - 1]
            ELSE LET h == AsPair(r.v.e[i])
                 IN  IF h.st # "ok" THEN After(Each[i - 1].calls, h)
                     ELSE Ok(List(Append(Each[i - 1].v.e, h.v)), Each[i - 1].calls \o h.calls)
    IN  IF r.st # "ok" THEN r
        ELSE IF r.v.t # "list"
        THEN fail_with_message(<<"generate() should return a list">>, r.calls)
        ELSE IF \A i \in 1..Len(r.v.e) : is_dataset(r.v.e[i]) \/ is_dataset_and_clue(r.v.e[i])
        THEN Each[Len(r.v.e)]
        ELSE fail_with_message(<<"generate() should return list of dataset or list of pairs">>, r.calls)

\* CodeQuiz.wrap_generate
code_wrap_generate(q, m) ==
    LET r == call_user_code("generate", <<>>, m.genRet)
    IN  IF r.st # "ok" THEN r
        ELSE IF r.v.t # "list"
        THEN fail_with_message(<<"generate() should return a list">>, r.calls)
        ELSE IF \A i \in 1..Len(r.v.e) : is_dataset(r.v.e[i])
        THEN After(r.calls, CodeCases(q, m, r.v.e, TRUE))
        ELSE IF \A i \in 1..Len(r.v.e) : is_dataset_and_clue(r.v.e[i])
        THEN After(r.calls, CodeCases(q, m, r.v.e, FALSE))
        ELSE fail_with_message(<<"generate() should return list of dataset or list of pairs">>, r.calls)

\* ------------------------------------------------------------ construction
Sig(name, f, n_param) == [name |-> name, f |-> f, n_param |-> n_param]

\* a check_signatures that does not count parameters
check_signatures_callable_only(specs) ==
    LET bad == {i \in 1..Len(specs) : ~specs[i].f.callable}
    IN  IF bad = {} THEN Ok(None, <<>>)
        ELSE fail_with_message(<<"is not callable", "">>, <<>>)

\* check_signatures: the first entry that is not callable or declares
\* another number of parameters ends the process
check_signatures(specs) ==
    LET bad == {i \in 1..Len(specs) :
                   ~specs[i].f.callable \/ specs[i].f.nparams # specs[i].n_param}
        first == CHOOSE i \in bad : \A j \in bad : i <= j
    IN  IF bad = {} THEN Ok(None, <<>>)
        ELSE IF ~specs[first].f.callable
        THEN fail_with_message(<<"is not callable", specs[first].name>>, <<>>)
        ELSE fail_with_message(<<"Expected with other arguments", specs[first].name>>, <<>>)

\* DatasetQuiz.__init__ (generate_fun is None when the module has none)
DatasetQuiz_init(m) ==
    IF ~m.generate.present
    THEN check_signatures(<<Sig("solve", m.solve, 0), Sig("check", m.check, 1)>>)
    ELSE check_signatures(<<Sig("generate", m.generate, 0),
                            Sig("solve", m.solve, 1),
                            Sig("check", m.check, 2)>>)

\* CodeQuiz.__init__
CodeQuiz_init(m) ==
    IF ~m.generate.present
    THEN fail_with_message(<<"Code Quiz should export generate">>, <<>>)
    ELSE check_signatures(<<Sig("generate", m.generate, 0),
                            Sig("solve", m.solve, 1),
                            Sig("check", m.check, 2)>>)

\* BaseQuiz.import_quiz for an already loaded module
import_quiz(cls, m) ==
    IF ~m.solve.present
    THEN fail_with_message(<<"Can't export from quiz module", "solve">>, <<>>)
    ELSE IF ~m.check.present
    THEN fail_with_message(<<"Can't export from quiz module", "check">>, <<>>)
    ELSE IF cls = "DatasetQuiz" THEN DatasetQuiz_init(m)
    ELSE CodeQuiz_init(m)

\* the quiz import_quiz builds when it returns
QuizOf(cls, m) == [cls |-> cls, synth |-> cls = "DatasetQuiz" /\ ~m.generate.present]
NoQuiz == [cls |-> "none", synth |-> FALSE]

\* --------------------------------------------------------------- self_check
True == BoolVal(One)
False == BoolVal(0)
PyBool(b) == IF b THEN True ELSE False

\* is_correct of CodeQuiz.self_check, and the last two lines of
\* DatasetQuiz.self_check
is_correct(q, m, dataset, clue) ==
    LET s == wrap_solve(q, m, dataset)
        c == After(s.calls, wrap_check(q, m, s.v, clue))
    IN  IF s.st # "ok" THEN s
        ELSE IF c.st # "ok" THEN c
        ELSE Ok(PyBool(EqualsOne(c.v.e[1])), c.calls)

\* DatasetQuiz.self_check
dataset_self_check(q, m) ==
    LET g == wrap_generate(q, m)
    IN  IF g.st # "ok" THEN g
        ELSE After(g.calls, is_correct(q, m, g.v.e[1], g.v.e[2]))

\* all(itertools.starmap(is_correct, test_cases)): lazy, so it stops at the
\* first case that is not correct
RECURSIVE AllCorrect(_, _, _)
AllCorrect(q, m, cases) ==
    IF cases = <<>> THEN Ok(True, <<>>)
    ELSE LET h == is_correct(q, m, Head(cases).e[1], Head(cases).e[2])
         IN  IF h.st # "ok" \/ h.v = False THEN h
             ELSE After(h.calls, AllCorrect(q, m, Tail(cases)))

\* CodeQuiz.self_check
code_self_check(q, m) ==
    LET g == code_wrap_generate(q, m)
    IN  IF g.st # "ok" THEN g
        ELSE After(g.calls, AllCorrect(q, m, g.v.e))

\* ----------------------------------------------------------- QuizModuleTest
Failure(pass, i, calls) ==
    [st |-> "assert", v |-> Tuple(<<Str(pass), IntVal(i)>>), msg |-> <<>>, calls |-> calls]

\* the shape assertions of runTest on one element of `tests`
IsTestShape(test) ==
    /\ test.t = "tuple"
    /\ Len(test.e) = 3
    /\ test.e[1].t = "str"
    /\ test.e[3].t = "str"

\* the body of the loop of testSamples for the i-th test
SampleCase(q, m, tests, i) ==
    LET c == wrap_check(q, m, tests.e[i].e[3], tests.e[i].e[2])
    IN  IF c.st # "ok" THEN c
        ELSE IF ~EqualsOne(c.v.e[1]) THEN Failure("testSamples", i, c.calls)
        ELSE Ok(None, c.calls)

\* the body of the loop of testSolve for the i-th test
SolveCase(q, m, tests, i) ==
    LET s == wrap_solve(q, m, tests.e[i].e[1])
        c == After(s.calls, wrap_check(q, m, s.v, tests.e[i].e[2]))
    IN  IF s.st # "ok" THEN s
        ELSE IF c.st # "ok" THEN c
        ELSE IF ~EqualsOne(c.v.e[1]) THEN Failure("testSolve", i, c.calls)
        ELSE Ok(None, c.calls)

\* a `for` loop over tests i..Len(tests): an exception ends it
RECURSIVE ForEachTest(_, _, _, _, _)
ForEachTest(q, m, tests, i, pass) ==
    IF i > Len(tests.e) THEN Ok(None, <<>>)
    ELSE LET h == IF pass = "testSamples" THEN SampleCase(q, m, tests, i)
                  ELSE SolveCase(q, m, tests, i)
         IN  IF h.st # "ok" THEN h
             ELSE After(h.calls, ForEachTest(q, m, tests, i + 1, pass))

\* QuizModuleTest.testSamples
testSamples(q, m, tests) == ForEachTest(q, m, tests, 1, "testSamples")

\* QuizModuleTest.testSolve
testSolve(q, m, tests) == ForEachTest(q, m, tests, 1, "testSolve")

\* a runTest that calls testSolve before testSamples
runTest_solve_first(q, m, tests) ==
    IF tests.t # "list" \/ \E i \in 1..Len(tests.e) : ~IsTestShape(tests.e[i])
    THEN Failure("tests", 0, <<>>)
    ELSE LET a == testSolve(q, m, tests)
         IN  IF a.st # "ok" THEN a
             ELSE After(a.calls, testSamples(q, m, tests))

\* QuizModuleTest.runTest
runTest(q, m, tests) ==
    IF tests.t # "list" THEN Failure("tests", 0, <<>>)
    ELSE IF \E i \in 1..Len(tests.e) : ~IsTestShape(tests.e[i])
    THEN Failure("tests", CHOOSE i \in 1..Len(tests.e) :
                              /\ ~IsTestShape(tests.e[i])
                              /\ \A j \in 1..(i - 1) : IsTestShape(tests.e[j]),
                 <<>>)
    ELSE LET a == testSamples(q, m, tests)
         IN  IF a.st # "ok" THEN a
             ELSE After(a.calls, testSolve(q, m, tests))

\* unittest.TestCase.run: an AssertionError of the test method is recorded
\* as a failure, every other exception bar KeyboardInterrupt (SystemExit
\* too) as an error, and the run of the suite goes on
TestCase_run(r) ==
    [failures |-> IF r.st = "assert" THEN <<r.v>> ELSE <<>>,
     errors |-> IF r.st \in {"exit", "exception"} THEN <<r.st>> ELSE <<>>]

NoReport == [failures |-> <<>>, errors |-> <<>>]

\* --------------------------------------------------------- modules explored
Fn(n) == [present |-> TRUE, callable |-> TRUE, nparams |-> n]
Absent == [present |-> FALSE, callable |-> FALSE, nparams |-> 0]
NotCallable == [present |-> TRUE, callable |-> FALSE, nparams |-> 0]

Zero == IntVal(0)
Full == IntVal(One)

\* raw solve: the same outcome for every argument, or one per dataset
SolveConst(o) == [k \in SolveKeys |-> o]
SolvePerCase(o1, o2) ==
    [k \in SolveKeys |-> IF k = "case1" THEN o1 ELSE IF k = "case2" THEN o2 ELSE Str("42")]

\* raw check: the same outcome always, or a score decided by reply and clue
CheckKeys == ReplyKeys \X ClueKeys
CheckConst(o) == [k \in CheckKeys |-> o]
CheckReplyIs42 == [k \in CheckKeys |-> IF k[1] = "42" THEN Full ELSE Zero]
CheckReplyIsClue == [k \in CheckKeys |-> IF k[1] = k[2] /\ k[1] # "*" THEN Full ELSE Zero]
CheckNotClue2 == [k \in CheckKeys |-> IF k[2] = "clue2" THEN Zero ELSE Full]
CheckRaisesOnBad == [k \in CheckKeys |-> IF k[1] = "bad-reply" THEN Raised ELSE Full]

Module(g, sv, c, genRet, solveTab, checkTab, hasTests, tests) ==
    [generate |-> g, solve |-> sv, check |-> c, genRet |-> genRet,
     solveTab |-> solveTab, checkTab |-> checkTab,
     hasTests |-> hasTests, tests |-> tests]

\* the two signatures DatasetQuiz accepts: <<generate, solve, check>>
FullShape == <<Fn(0), Fn(1), Fn(2)>>
BareShape == <<Absent, Fn(0), Fn(1)>>

DefaultGen == Tuple(<<Str("case1"), Str("42")>>)

\* every combination of attributes and declared parameter counts
SignatureModules ==
    {Module(g, sv, c, DefaultGen, SolveConst(Str("42")), CheckReplyIs42, FALSE, None) :
        g \in {Absent, NotCallable, Fn(0), Fn(1)},
        sv \in {Absent, NotCallable, Fn(0), Fn(1), Fn(2)},
        c \in {Absent, NotCallable, Fn(1), Fn(2), Fn(3)}}

\* what raw check may return
CheckRaw ==
    {Zero, Full, FloatVal(0), FloatVal(One), FloatVal(5000), FloatVal(15000),
     FloatVal(One + 1), FloatVal(-1), IntVal(2 * One), IntVal(-One), True, False,
     NaN, None, Str("1"), Raised,
     List(<<Full, Str("hint")>>),
     Tuple(<<>>), Tuple(<<Full>>), Tuple(<<Full, Str("hint"), Str("more")>>),
     Tuple(<<Full, Str("hint")>>), Tuple(<<FloatVal(5000), Str("")>>),
     Tuple(<<FloatVal(15000), Str("hint")>>), Tuple(<<Str("1"), Str("hint")>>),
     Tuple(<<Full, Zero>>), Tuple(<<Full, None>>)}

CheckModules ==
    {Module(sh[1], sh[2], sh[3], DefaultGen, SolveConst(Str("42")), CheckConst(o), FALSE, None) :
        sh \in {FullShape, BareShape}, o \in CheckRaw}

\* what raw generate of a DatasetQuiz module may return
GenRaw ==
    {Str("case1"), Bytes("case1"), EmptyDict, FileDict(Str("case1")),
     FileDict(Bytes("case1")), FileDict(EmptyDict),
     Dict(<<Tuple(<<Str("data"), Str("case1")>>)>>),
     Dict(<<Tuple(<<Str("file"), Str("case1")>>), Tuple(<<Str("n"), Full>>)>>),
     Full, None, Obj, List(<<Str("case1")>>), Raised,
     Tuple(<<>>), Tuple(<<Str("case1")>>),
     Tuple(<<Str("case1"), Str("42"), Str("more")>>),
     Tuple(<<Str("case1"), Str("42")>>), Tuple(<<Bytes("case1"), Full>>),
     Tuple(<<EmptyDict, Tuple(<<Str("42"), Full>>)>>),
     Tuple(<<Str("case1"), Obj>>), Tuple(<<EmptyDict, List(<<Obj>>)>>),
     Tuple(<<Full, Str("42")>>), Tuple(<<None, Obj>>)}

SolveRaw == {Str("42"), Str("41"), Full, Raised}
CheckTabs == {CheckReplyIs42, CheckReplyIsClue, CheckConst(True), CheckConst(Zero)}

DatasetModules ==
    {Module(Fn(0), Fn(1), Fn(2), g, SolveConst(o), c, FALSE, None) :
        g \in GenRaw, o \in SolveRaw, c \in CheckTabs}
    \cup
    {Module(Absent, Fn(0), Fn(1), DefaultGen, SolveConst(o), c, FALSE, None) :
        o \in SolveRaw, c \in CheckTabs}

\* sequences over S of length at most n
RECURSIVE SeqsUpTo(_, _)
SeqsUpTo(S, n) ==
    IF n = 0 THEN {<<>>}
    ELSE LET shorter == SeqsUpTo(S, n - 1)
         IN  shorter \cup {Append(q, x) : q \in shorter, x \in S}

\* what raw generate of a CodeQuiz module may return
CodeElems ==
    {Str("case1"), Str("case2"), Tuple(<<Str("case2"), Str("clue2")>>),
     Tuple(<<Str("case1"), Obj>>), Full}

CodeGenRaw ==
    {Str("case1"), None, Raised, Tuple(<<Str("case1"), Str("clue2")>>)}
    \cup {List(e) : e \in SeqsUpTo(CodeElems, MaxCases)}

CodeSolveTabs ==
    {SolvePerCase(o1, o2) : o1 \in {Str("42"), Raised}, o2 \in {Str("42"), Full}}

CodeModules ==
    {Module(Fn(0), Fn(1), Fn(2), g, sv, c, FALSE, None) :
        g \in CodeGenRaw, sv \in CodeSolveTabs,
        c \in {CheckConst(Full), CheckReplyIsClue, CheckNotClue2}}

\* the attribute `tests` of a module
Triple(dataset, clue, reply) == Tuple(<<Str(dataset), Str(clue), Str(reply)>>)

TestElems ==
    {Triple("case1", "clue1", "42"), Triple("case2", "clue2", "bad-reply"),
     Triple("case2", "clue2", "42"),
     Tuple(<<Str("case1"), Str("42")>>)}

TestsRaw ==
    {Tuple(<<Triple("case1", "clue1", "42")>>)}
    \cup {List(e) : e \in SeqsUpTo(TestElems, MaxCases)}

TestSolveTabs ==
    {SolveConst(Str("42")), SolvePerCase(Str("41"), Raised), SolvePerCase(Str("42"), Str("41"))}

TestCheckTabs ==
    {CheckReplyIs42, CheckConst(Zero), CheckNotClue2, CheckRaisesOnBad, CheckConst(Full)}

TestModules ==
    {Module(Fn(0), Fn(1), Fn(2), List(<<Str("case1")>>), sv, c, TRUE, t) :
        sv \in TestSolveTabs, c \in TestCheckTabs, t \in TestsRaw}
    \cup
    {Module(Absent, Fn(0), Fn(1), DefaultGen, SolveConst(Str("42")), c, TRUE,
            List(<<Triple("case1", "clue1", "42"), Triple("case2", "clue2", "bad-reply")>>)) :
        c \in TestCheckTabs}

Modules ==
    SignatureModules \cup CheckModules \cup DatasetModules \cup CodeModules \cup TestModules

\* arguments of the direct calls of the wrapped solve and check
SolveArgs == {Str("case1"), FileDict(Str("case1")), EmptyDict}
CheckReplies == {Str("42"), Str("bad-reply")}
CheckClues == {Str(""), Str("clue2")}

\* ------------------------------------------------------------ state machine
VARIABLES
    module,  \* the quiz module given to import_quiz
    quiz,    \* the quiz built from it, NoQuiz before
    status,  \* "running"; "exited" after sys.exit(-1); "crashed" when an
             \* exception left the program
    op,      \* the last operation: [name, args]
    res,     \* its result
    tests,   \* QuizModuleTest.tests, None while no test case is built
    report   \* what unittest recorded for the last runTest

vars == <<module, quiz, status, op, res, tests, report>>

Op(name, args) == [name |-> name, args |-> args]

Init ==
    /\ module \in Modules
    /\ quiz = NoQuiz
    /\ status = "running"
    /\ op = Op("start", <<>>)
    /\ res = Ok(None, <<>>)
    /\ tests = None
    /\ report = NoReport

\* the state of the process after harness code ended with r
StatusAfter(r) ==
    IF r.st = "exit" THEN "exited"
    ELSE IF r.st = "exception" THEN "crashed"
    ELSE "running"

\* quiz_cls.import_quiz(module)
Import(cls) ==
    /\ status = "running"
    /\ quiz = NoQuiz
    /\ LET r == import_quiz(cls, module)
       IN  /\ res' = r
           /\ quiz' = IF r.st = "ok" THEN QuizOf(cls, module) ELSE NoQuiz
           /\ status' = StatusAfter(r)
    /\ op' = Op("import_quiz", <<Str(cls)>>)
    /\ UNCHANGED <<module, tests, report>>

\* QuizModuleTest.__init__, as quiz_cls.load_tests(module) calls it
LoadTests(cls) ==
    /\ status = "running"
    /\ quiz = NoQuiz
    /\ LET r == import_quiz(cls, module)
       IN  /\ res' = r
           /\ quiz' = IF r.st = "ok" THEN QuizOf(cls, module) ELSE NoQuiz
           /\ status' = StatusAfter(r)
           /\ tests' = IF r.st # "ok" THEN None
                       ELSE IF module.hasTests THEN module.tests
                       ELSE List(<<>>)
    /\ op' = Op("QuizModuleTest", <<Str(cls)>>)
    /\ UNCHANGED <<module, report>>

\* harness code run outside unittest: op, with result r
Harness(name, args, r) ==
    /\ res' = r
    /\ status' = StatusAfter(r)
    /\ op' = Op(name, args)
    /\ UNCHANGED <<module, quiz, tests, report>>

\* quiz.generate()
Generate ==
    /\ status = "running"
    /\ quiz # NoQuiz
    /\ Harness("generate", <<>>,
               IF quiz.cls = "DatasetQuiz" THEN wrap_generate(quiz, module)
               ELSE code_wrap_generate(quiz, module))

\* quiz.solve(dataset)
Solve(dataset) ==
    /\ status = "running"
    /\ quiz # NoQuiz
    /\ Harness("solve", <<dataset>>, wrap_solve(quiz, module, dataset))

\* quiz.check(reply, clue)
Check(reply, clue) ==
    /\ status = "running"
    /\ quiz # NoQuiz
    /\ Harness("check", <<reply, clue>>, wrap_check(quiz, module, reply, clue))

\* quiz.self_check()
SelfCheck ==
    /\ status = "running"
    /\ quiz # NoQuiz
    /\ Harness("self_check", <<>>,
               IF quiz.cls = "DatasetQuiz" THEN dataset_self_check(quiz, module)
               ELSE code_self_check(quiz, module))

\* unittest running the QuizModuleTest: TestCase.run calls runTest
RunTest ==
    /\ status = "running"
    /\ tests # None
    /\ LET r == runTest(quiz, module, tests)
       IN  /\ res' = r
           /\ report' = TestCase_run(r)
    /\ op' = Op("runTest", <<>>)
    /\ UNCHANGED <<module, quiz, status, tests>>

Next ==
    \/ \E cls \in {"DatasetQuiz", "CodeQuiz"} : Import(cls)
    \/ \E cls \in {"DatasetQuiz", "CodeQuiz"} : LoadTests(cls)
    \/ Generate
    \/ \E dataset \in SolveArgs : Solve(dataset)
    \/ \E reply \in CheckReplies, clue \in CheckClues : Check(reply, clue)
    \/ SelfCheck
    \/ RunTest

Spec == Init /\ [][Next]_vars

\* ------------------------------------------------------- the cleaners alone
CleanInputs ==
    CheckRaw \cup GenRaw \cup {Str(""), Str("42"), Bytes(""), FileDict(Str("")), List(<<>>)}

Cleaners == {"clean_score", "clean_answer", "clean_dataset", "CodeQuiz.clean_dataset"}

ApplyCleaner(name, v) ==
    CASE name = "clean_score" -> clean_score(v)
      [] name = "clean_answer" -> clean_answer(v)
      [] name = "clean_dataset" -> clean_dataset(v)
      [] name = "CodeQuiz.clean_dataset" -> code_clean_dataset(v)

InitClean ==
    /\ module = Module(Fn(0), Fn(1), Fn(2), DefaultGen, SolveConst(Str("42")),
                       CheckReplyIs42, FALSE, None)
    /\ quiz = NoQuiz
    /\ status = "running"
    /\ op = Op("start", <<>>)
    /\ res = Ok(None, <<>>)
    /\ tests = None
    /\ report = NoReport

\* a cleaner called on a value
CleanValue(name, v) ==
    /\ status = "running"
    /\ Harness(name, <<v>>, ApplyCleaner(name, v))

\* the same cleaner called on what it has just returned; op.args keeps the
\* first input and the first output
ReClean ==
    /\ status = "running"
    /\ op.name \in Cleaners
    /\ Len(op.args) = 1
    /\ res.st = "ok"
    /\ Harness(op.name, <<op.args[1], res.v>>, ApplyCleaner(op.name, res.v))

NextClean ==
    \/ \E name \in Cleaners, v \in CleanInputs : CleanValue(name, v)
    \/ ReClean

SpecClean == InitClean /\ [][NextClean]_vars

\* ===================================================================== C1
InUnitInterval(v) == IsReal(v) /\ v.s # "nan" /\ 0 <= v.n /\ v.n <= One

\* C1: whatever the wrapped check returns is a pair (score, hint) with a real
\* score in [0.0, 1.0] and a str hint; raw 0.0 and 1.0 are accepted, raw
\* scores outside the interval or not numeric end in sys.exit, a raw 2-tuple
\* is (score, hint), a raw tuple of another length ends in sys.exit, and a
\* raw non-tuple is returned with the hint ''.
C1_CheckReturnsScoreAndHint ==
    op.name = "check" =>
        LET raw == res.calls[1].ret
            pair == raw.t = "tuple" /\ Len(raw.e) = 2
            score == IF pair THEN raw.e[1] ELSE raw
            hint == IF pair THEN raw.e[2] ELSE Str("")
        IN  /\ Len(res.calls) = 1
            /\ res.st \in {"ok", "exit"}
            /\ res.st = "ok" =>
                  /\ res.v.t = "tuple" /\ Len(res.v.e) = 2
                  /\ InUnitInterval(res.v.e[1])
                  /\ res.v.e[2].t = "str"
                  /\ res.v = Tuple(<<score, hint>>)
            /\ (raw.t = "tuple" /\ Len(raw.e) # 2) => res.st = "exit"
            /\ ~InUnitInterval(score) => res.st = "exit"
            /\ (raw.t # "tuple" /\ InUnitInterval(raw)) => res = Ok(Tuple(<<raw, Str("")>>), res.calls)
            /\ raw \in {FloatVal(0), FloatVal(One)} => res.st = "ok"
            /\ raw \in {FloatVal(15000), FloatVal(One + 1), FloatVal(-1)} => res.st = "exit"
            /\ (status = "exited") = (res.st = "exit")

C1_Witness ==
    /\ op.name = "check"
    /\ res.calls[1].ret = FloatVal(One)
    /\ res.st = "ok"
    /\ res.v = Tuple(<<FloatVal(One), Str("")>>)

\* ===================================================================== C2
\* C2: the wrapped generate of a CodeQuiz ends in sys.exit when raw generate
\* returns a non-list and when the list mixes bare strings with 2-tuples; for
\* a list of strings it returns, in order, one pair per element, the element
\* itself and the cleaned result of the wrapped solve on it (and it returns
\* exactly when the wrapped solve returns on every element).
C2_CodeGenerate ==
    (op.name = "generate" /\ quiz.cls = "CodeQuiz") =>
        LET raw == module.genRet
            n == Len(raw.e)
            solved(i) == wrap_solve(quiz, module, raw.e[i])
        IN  /\ raw.t # "list" => res.st = "exit"
            /\ (/\ raw.t = "list"
                /\ \E i \in 1..n : raw.e[i].t = "str"
                /\ \E i \in 1..n : raw.e[i].t = "tuple" /\ Len(raw.e[i].e) = 2)
                  => res.st = "exit"
            /\ (raw.t = "list" /\ \A i \in 1..n : raw.e[i].t = "str") =>
                  /\ (res.st = "ok") = (\A i \in 1..n : solved(i).st = "ok")
                  /\ res.st # "ok" => res.st = "exit"
                  /\ res.st = "ok" =>
                        /\ res.v.t = "list" /\ Len(res.v.e) = n
                        /\ \A i \in 1..n :
                              res.v.e[i] = Tuple(<<raw.e[i], clean_clue(solved(i).v).v>>)

C2_Witness ==
    /\ op.name = "generate" /\ quiz.cls = "CodeQuiz"
    /\ module.genRet = List(<<Str("case1"), Str("case2")>>)
    /\ res.st = "ok"
    /\ res.v = List(<<Tuple(<<Str("case1"), Str("42")>>), Tuple(<<Str("case2"), Str("42")>>)>>)

\* ===================================================================== C3
\* raw generate returns ["case1", ("case2", "clue2")], and check scores the
\* solved case1 as 1 against the clue solve derives and the solved case2 as
\* 1 against "clue2"
ScenarioB ==
    /\ quiz.cls = "CodeQuiz"
    /\ module.genRet = List(<<Str("case1"), Tuple(<<Str("case2"), Str("clue2")>>)>>)
    /\ LET a1 == wrap_solve(quiz, module, Str("case1"))
           a2 == wrap_solve(quiz, module, Str("case2"))
       IN  /\ a1.st = "ok" /\ a2.st = "ok"
           /\ is_correct(quiz, module, Str("case1"), clean_clue(a1.v).v).v = True
           /\ is_correct(quiz, module, Str("case2"), Str("clue2")).v = True

\* C3 as stated: in scenario B self_check() returns true.
C3_Original ==
    (op.name = "self_check" /\ ScenarioB) => (res.st = "ok" /\ res.v = True)

\* C3, amended: in scenario B self_check() does not return; generate() ends
\* in sys.exit because the list mixes a bare string with a 2-tuple, before
\* solve or check is called.  When raw generate returns the two cases in one
\* shape, ["case1", "case2"], and check scores each solved case as 1 against
\* the clue solve derives, self_check() returns true.
C3_MixedListIsFatal ==
    op.name = "self_check" =>
        /\ ScenarioB =>
              /\ res.st = "exit" /\ status = "exited"
              /\ res.msg = <<"generate() should return list of dataset or list of pairs">>
              /\ \A i \in 1..Len(res.calls) : res.calls[i].f = "generate"
        /\ (/\ quiz.cls = "CodeQuiz"
            /\ module.genRet = List(<<Str("case1"), Str("case2")>>)
            /\ \A d \in {Str("case1"), Str("case2")} :
                  LET a == wrap_solve(quiz, module, d)
                  IN  a.st = "ok" /\ is_correct(quiz, module, d, clean_clue(a.v).v).v = True)
              => (res.st = "ok" /\ res.v = True)

C3_Witness ==
    /\ op.name = "self_check"
    /\ ScenarioB
    /\ res.st = "exit"

\* ===================================================================== C4
Declares(f, n) == f.present /\ f.callable /\ f.nparams = n

\* the signatures the class named in op.args accepts
Accepted(cls, m) ==
    IF cls = "DatasetQuiz" /\ ~m.generate.present
    THEN Declares(m.solve, 0) /\ Declares(m.check, 1)
    ELSE Declares(m.generate, 0) /\ Declares(m.solve, 1) /\ Declares(m.check, 2)

\* C4: constructing a quiz returns exactly when the declared parameter
\* counts are the expected ones (DatasetQuiz without generate: solve/0 and
\* check/1; DatasetQuiz with generate and CodeQuiz: generate/0, solve/1,
\* check/2; CodeQuiz without generate never) and ends in sys.exit otherwise,
\* and no user function has been called by then.
C4_ConstructionChecksSignatures ==
    op.name \in {"import_quiz", "QuizModuleTest"} =>
        LET cls == op.args[1].s
        IN  /\ res.calls = <<>>
            /\ res.st = IF Accepted(cls, module) THEN "ok" ELSE "exit"
            /\ (status = "exited") = ~Accepted(cls, module)
            /\ (quiz = NoQuiz) = ~Accepted(cls, module)
            /\ (cls = "CodeQuiz" /\ ~module.generate.present) => res.st = "exit"
            /\ (cls = "DatasetQuiz" /\ ~module.generate.present /\ module.solve.nparams = 1)
                  => res.st = "exit"

C4_Witness ==
    /\ op.name = "import_quiz"
    /\ op.args[1].s = "DatasetQuiz"
    /\ ~module.generate.present
    /\ module.solve = Fn(1) /\ module.check = Fn(1)
    /\ res.st = "exit"
    /\ res.msg = <<"Expected with other arguments", "solve">>

\* ===================================================================== C5
\* the score in what raw check returned
RawScore(ret) == IF ret.t = "tuple" /\ Len(ret.e) = 2 THEN ret.e[1] ELSE ret
RawHint(ret) == IF ret.t = "tuple" /\ Len(ret.e) = 2 THEN ret.e[2] ELSE Str("")

\* C5: for a DatasetQuiz whose module has no generate, generate() returns
\* ({}, ""), solve(dataset) calls raw solve() and returns its result for
\* every dataset, check(reply, clue) calls raw check(reply) and returns its
\* result for every clue, and self_check() returns true exactly when raw
\* check applied to the result of raw solve() scores 1 (true for solve()
\* returning "42" and check scoring 1 iff the reply is "42").
C5_SynthesizedContract ==
    (quiz.cls = "DatasetQuiz" /\ quiz.synth) =>
        /\ op.name = "generate" => res = Ok(Tuple(<<EmptyDict, Str("")>>), <<>>)
        /\ op.name = "solve" =>
              /\ res.calls = <<UserCall("solve", <<>>, module.solveTab["*"])>>
              /\ res.st = "ok" => res.v = res.calls[1].ret
        /\ op.name = "check" =>
              /\ Len(res.calls) = 1
              /\ res.calls[1].f = "check" /\ res.calls[1].args = <<op.args[1]>>
              /\ res.st = "ok" =>
                    res.v = Tuple(<<RawScore(res.calls[1].ret), RawHint(res.calls[1].ret)>>)
        /\ (op.name = "self_check" /\ res.st = "ok") =>
              /\ Len(res.calls) = 2
              /\ res.calls[1] = UserCall("solve", <<>>, module.solveTab["*"])
              /\ res.calls[2].f = "check"
              /\ res.calls[2].args = <<res.calls[1].ret>>
              /\ (res.v = True) = EqualsOne(RawScore(res.calls[2].ret))
              /\ res.v \in {True, False}
        /\ (/\ op.name = "self_check"
            /\ module.solveTab["*"] = Str("42")
            /\ module.checkTab = CheckReplyIs42)
              => (res.st = "ok" /\ res.v = True)

C5_Witness ==
    /\ quiz.cls = "DatasetQuiz" /\ quiz.synth
    /\ op.name = "self_check"
    /\ module.solveTab["*"] = Str("42")
    /\ module.checkTab = CheckReplyIs42
    /\ res.st = "ok" /\ res.v = True

\* ===================================================================== C6
WellShaped(t) == t.t = "list" /\ \A i \in 1..Len(t.e) : IsTestShape(t.e[i])

\* the declared cases in the order runTest visits them: every case in
\* testSamples, then every case in testSolve
Visits(t) ==
    [k \in 1..(2 * Len(t.e)) |->
        IF k <= Len(t.e) THEN <<"testSamples", k>> ELSE <<"testSolve", k - Len(t.e)>>]

\* what the body of the loop does on one visit, taken alone
Visit(w) ==
    IF w[1] = "testSamples" THEN SampleCase(quiz, module, tests, w[2])
    ELSE SolveCase(quiz, module, tests, w[2])

\* the visits whose score is not 1
Failing(t) == {k \in 1..(2 * Len(t.e)) : Visit(Visits(t)[k]).st = "assert"}

\* no user function raises and no result breaks the contract on any visit
NoVisitExits(t) == \A k \in 1..(2 * Len(t.e)) : Visit(Visits(t)[k]).st \in {"ok", "assert"}

Reported(w) ==
    \E j \in 1..Len(report.failures) :
        report.failures[j] = Tuple(<<Str(w[1]), IntVal(w[2])>>)

\* C6 as stated: every case whose score is not 1, in either pass, is in the
\* reported failures.
C6_Original ==
    (op.name = "runTest" /\ WellShaped(tests) /\ NoVisitExits(tests)) =>
        \A k \in Failing(tests) : Reported(Visits(tests)[k])

\* C6, amended: runTest visits the declared cases in testSamples and then in
\* testSolve and stops at the first case whose score is not 1: that case
\* alone is reported as a failure, testSolve runs only when every case
\* passed testSamples, and cases after the first failing one are neither
\* run nor reported.
C6_FirstFailureOnly ==
    op.name = "runTest" =>
        /\ Len(report.failures) <= 1
        /\ (WellShaped(tests) /\ NoVisitExits(tests)) =>
              LET bad == Failing(tests)
                  first == CHOOSE k \in bad : \A j \in bad : k <= j
                  \* user calls made by the visits before the first failing one
                  done == IF bad = {} THEN 2 * Len(tests.e) ELSE first
              IN  /\ bad = {} => (report = NoReport /\ res.st = "ok")
                  /\ bad # {} =>
                        /\ res.st = "assert"
                        /\ report.errors = <<>>
                        /\ report.failures =
                              <<Tuple(<<Str(Visits(tests)[first][1]),
                                        IntVal(Visits(tests)[first][2])>>)>>
                        /\ (\E k \in bad : k <= Len(tests.e))
                              => \A i \in 1..Len(res.calls) : res.calls[i].f = "check"
                  /\ Len(SelectSeq(res.calls, LAMBDA c : c.f = "check")) = done

C6_Witness ==
    /\ op.name = "runTest"
    /\ WellShaped(tests) /\ NoVisitExits(tests)
    /\ Cardinality(Failing(tests)) >= 2
    /\ Len(report.failures) = 1

\* ===================================================================== C7
SomeCallRaised == \E i \in 1..Len(res.calls) : res.calls[i].ret = Raised

\* C7: an exception of a user function never leaves the harness as itself:
\* outside runTest the operation ends in fail_with_message (message printed,
\* process exited), and inside runTest it ends as an entry of the unittest
\* report while the process goes on.
C7_UserFaultsAreCaught ==
    /\ res.st # "exception"
    /\ status # "crashed"
    /\ SomeCallRaised =>
          /\ res.calls[Len(res.calls)].ret = Raised
          /\ res.st = "exit"
          /\ res.msg = <<"Quiz failed with exception!">>
          /\ op.name # "runTest" => status = "exited"
          /\ op.name = "runTest" =>
                /\ status = "running"
                /\ Len(report.failures) + Len(report.errors) = 1

C7_Witness ==
    /\ op.name = "runTest"
    /\ SomeCallRaised
    /\ status = "running"
    /\ report.errors # <<>>

\* ===================================================================== C8
\* what dataset cleaning makes of a dataset it accepts
CleanedDataset(d) == IF d.t \in {"str", "bytes"} THEN FileDict(d) ELSE d

\* C8: the wrapped generate of a DatasetQuiz takes a raw 2-tuple as
\* (dataset, clue), ends in sys.exit on a tuple of another length, takes a
\* raw non-tuple as the dataset and the result of the wrapped solve on it as
\* the clue, and whenever it returns the dataset is a dict (a str or bytes
\* dataset wrapped under "file") and the clue has passed clue cleaning.
C8_DatasetGenerate ==
    (op.name = "generate" /\ quiz.cls = "DatasetQuiz" /\ ~quiz.synth) =>
        LET raw == module.genRet
            tuple == raw.t = "tuple"
            dataset == IF tuple THEN raw.e[1] ELSE raw
        IN  /\ res.st \in {"ok", "exit"}
            /\ (tuple /\ Len(raw.e) # 2) =>
                  /\ res.st = "exit"
                  /\ res.msg = <<"generate() returned a tuple but it's length is not 2.">>
            /\ (tuple /\ Len(raw.e) = 2) =>
                  /\ Len(res.calls) = 1
                  /\ (res.st = "ok") =
                        (raw.e[1].t \in {"dict", "str", "bytes"} /\ Serializable(raw.e[2]))
                  /\ res.st = "ok" => res.v.e[2] = clean_clue(raw.e[2]).v
            /\ (~tuple /\ raw # Raised) =>
                  /\ Len(res.calls) = 2
                  /\ res.calls[2].f = "solve"
                  /\ wrap_solve(quiz, module, raw).calls = <<res.calls[2]>>
                  /\ (res.st = "ok") =
                        (wrap_solve(quiz, module, raw).st = "ok"
                         /\ raw.t \in {"dict", "str", "bytes"})
                  /\ res.st = "ok" =>
                        res.v.e[2] = clean_clue(wrap_solve(quiz, module, raw).v).v
            /\ res.st = "ok" =>
                  /\ res.v.t = "tuple" /\ Len(res.v.e) = 2
                  /\ res.v.e[1].t = "dict"
                  /\ res.v.e[1] = CleanedDataset(dataset)
                  /\ dataset.t \in {"str", "bytes"} =>
                        res.v.e[1] = Dict(<<Tuple(<<Str("file"), dataset>>)>>)
                  /\ Serializable(res.v.e[2])

C8_Witness ==
    /\ op.name = "generate" /\ quiz.cls = "DatasetQuiz" /\ ~quiz.synth
    /\ module.genRet = Str("case1")
    /\ res.st = "ok"
    /\ res.v = Tuple(<<FileDict(Str("case1")), Str("42")>>)

\* ===================================================================== C9
\* C9: a cleaner applied to what it has returned returns it again:
\* clean(clean(v)) = clean(v) for clean_score, clean_answer and both
\* clean_dataset; a str or bytes dataset is wrapped as {"file": v} once.
C9_CleaningIsIdempotent ==
    (op.name \in Cleaners /\ Len(op.args) = 2) =>
        /\ res.st = "ok"
        /\ res.v = op.args[2]
        /\ (op.name = "clean_dataset" /\ op.args[1].t \in {"str", "bytes"}) =>
              res.v = Dict(<<Tuple(<<Str("file"), op.args[1]>>)>>)

C9_Witness ==
    /\ op.name = "clean_dataset"
    /\ op.args = <<Bytes("case1"), FileDict(Bytes("case1"))>>
    /\ res = Ok(FileDict(Bytes("case1")), <<>>)

\* ==================================================================== C10
SolveCalls == SelectSeq(res.calls, LAMBDA c : c.f = "solve")

\* C10: in self_check() of a DatasetQuiz whose raw generate returns a bare
\* str, bytes or dict d, raw solve gets the same argument when generate()
\* derives the clue from d and when self_check solves the cleaned dataset:
\* d itself, or d["file"] when d is a dict with the single key "file".
C10_SolveSeesTheSameDataset ==
    (/\ op.name = "self_check"
     /\ quiz.cls = "DatasetQuiz" /\ ~quiz.synth
     /\ module.genRet.t \in {"str", "bytes", "dict"}) =>
        LET d == module.genRet
            arg == IF d.t = "dict" /\ Len(d.e) = 1 /\ d.e[1].e[1] = Str("file")
                   THEN d.e[1].e[2] ELSE d
        IN  /\ Len(SolveCalls) \in {1, 2}
            /\ \A i \in 1..Len(SolveCalls) : SolveCalls[i].args = <<arg>>
            /\ res.st = "ok" => Len(SolveCalls) = 2

C10_Witness ==
    /\ op.name = "self_check"
    /\ quiz.cls = "DatasetQuiz" /\ ~quiz.synth
    /\ module.genRet = Str("case1")
    /\ Len(SolveCalls) = 2
    /\ SolveCalls[1].args = <<Str("case1")>>
    /\ SolveCalls[2].args = <<Str("case1")>>

====
